---------------------------- MODULE Spec2Model ----------------------------
(* A model of the bedrock 2D renderer: the scene data (scene.rs), the      *)
(* surface lifecycle manager (surface_wrapper.rs), the frame compositor    *)
(* (resources.rs, renderer.rs) and the quad drawable (quad.rs).            *)
(*                                                                         *)
(* Floats are modelled by integers, Option<T> by a sequence of length 0    *)
(* (None) or 1 (Some), Vec2/Vec4 by tuples.  A panic (unwrap, expect,      *)
(* panic!) ends the program: pc = "aborted", a state with no successor.    *)
EXTENDS Integers, Sequences, FiniteSets, TLC

(***************************************************************************)
(* Generic helpers                                                         *)
(***************************************************************************)
None == <<>>
Some(x) == <<x>>
IsSome(o) == o # <<>>
IsNone(o) == o = <<>>
Unwrap(o) == o[1]
UnwrapOr(o, d) == IF o = <<>> THEN d ELSE o[1]

Max(a, b) == IF a >= b THEN a ELSE b
Min(a, b) == IF a <= b THEN a ELSE b

\* `x as u32` on a float: saturating, negative values give 0.  (The upper
\* saturation at 2^32 - 1 is beyond the integers of the model.)
AsU32(x) == IF x < 0 THEN 0 ELSE x

\* Replace the last element of a non-empty sequence (last_mut()).
SetLast(s, x) == [s EXCEPT ![Len(s)] = x]
Last(s) == s[Len(s)]

(***************************************************************************)
(* glam vectors                                                            *)
(***************************************************************************)
Vec2ZERO == <<0, 0>>
Vec4ZERO == <<0, 0, 0, 0>>
Vec4ONE == <<1, 1, 1, 1>>
xy(v) == <<v[1], v[2]>>
zw(v) == <<v[3], v[4]>>

(***************************************************************************)
(* scene.rs: Quad (scene/quad.rs is not part of the sources at hand)       *)
(***************************************************************************)
Quad_new(top_left, size, color) ==
    [top_left |-> top_left, size |-> size, color |-> color, background_blur |-> 0]

with_background_blur(quad, radius) == [quad EXCEPT !.background_blur = radius]

\* The instance record handed to the shader.
to_instanced(quad) ==
    [top_left |-> quad.top_left, size |-> quad.size,
     color |-> quad.color, blur |-> quad.background_blur]

(***************************************************************************)
(* scene.rs: Layer                                                         *)
(***************************************************************************)
default_font == "Courier New"
default_size == 16

\* Mutant: the derived Default, without a background color.
Layer_default_Transparent ==
    [clip |-> None,
     background_blur_radius |-> 0,
     background_color |-> None,
     font_name |-> "Courier New",
     font_size |-> 16,
     quads |-> <<>>,
     texts |-> <<>>,
     paths |-> <<>>,
     sprites |-> <<>>]

Layer_default ==
    [clip |-> None,
     background_blur_radius |-> 0,
     background_color |-> Some(<<1, 1, 1, 1>>),
     font_name |-> "Courier New",
     font_size |-> 16,
     quads |-> <<>>,
     texts |-> <<>>,
     paths |-> <<>>,
     sprites |-> <<>>]

\* A Layer deserialized from a document that gives none of its fields:
\* #[serde(default)] takes the field type's Default (None, 0.0, empty Vec),
\* #[serde(default = "f")] calls f.
Layer_deserialize_empty ==
    [clip |-> None,
     background_blur_radius |-> 0,
     background_color |-> None,
     font_name |-> default_font,
     font_size |-> default_size,
     quads |-> <<>>,
     texts |-> <<>>,
     paths |-> <<>>,
     sprites |-> <<>>]

\* The derived Deserialize of Layer on a document doc, a function from the
\* names of the fields the document gives to their values: a field the
\* document gives is taken from it, a missing one gets its serde default.
Layer_deserialize(doc) ==
    [clip |-> IF "clip" \in DOMAIN doc THEN Some(doc["clip"]) ELSE None,
     background_blur_radius |->
         IF "background_blur_radius" \in DOMAIN doc
         THEN doc["background_blur_radius"] ELSE 0,
     background_color |->
         IF "background_color" \in DOMAIN doc
         THEN Some(doc["background_color"]) ELSE None,
     font_name |-> IF "font_name" \in DOMAIN doc THEN doc["font_name"] ELSE default_font,
     font_size |-> IF "font_size" \in DOMAIN doc THEN doc["font_size"] ELSE default_size,
     quads |-> IF "quads" \in DOMAIN doc THEN doc["quads"] ELSE <<>>,
     texts |-> IF "texts" \in DOMAIN doc THEN doc["texts"] ELSE <<>>,
     paths |-> IF "paths" \in DOMAIN doc THEN doc["paths"] ELSE <<>>,
     sprites |-> IF "sprites" \in DOMAIN doc THEN doc["sprites"] ELSE <<>>]

Layer_with_clip(l, clip) == [l EXCEPT !.clip = Some(clip)]
Layer_with_blur(l, radius) == [l EXCEPT !.background_blur_radius = radius]
Layer_with_background(l, color) == [l EXCEPT !.background_color = Some(color)]
Layer_with_font(l, font_name) == [l EXCEPT !.font_name = font_name]
Layer_add_quad(l, quad) == [l EXCEPT !.quads = Append(@, quad)]
Layer_add_text(l, text) == [l EXCEPT !.texts = Append(@, text)]
Layer_add_path(l, path) == [l EXCEPT !.paths = Append(@, path)]
Layer_add_sprite(l, sprite) == [l EXCEPT !.sprites = Append(@, sprite)]

(***************************************************************************)
(* scene.rs: Scene                                                         *)
(***************************************************************************)
\* Mutant: a new scene has no layer.
Scene_new_Empty == [layers |-> <<>>]

Scene_new == [layers |-> <<Layer_default>>]

\* Mutant: the new layer is put in front of the others.
add_layer_Prepend(s, l) == [s EXCEPT !.layers = <<l>> \o @]

add_layer(s, l) == [s EXCEPT !.layers = Append(@, l)]
with_layer(s, l) == add_layer(s, l)
\* layers.last().unwrap(): fails on an empty scene; callers guard.
layer(s) == Last(s.layers)
layer_mut_set(s, l) == [s EXCEPT !.layers = SetLast(@, l)]

Scene_with_clip(s, clip) == layer_mut_set(s, Layer_with_clip(layer(s), clip))
Scene_with_blur(s, radius) == layer_mut_set(s, Layer_with_blur(layer(s), radius))
Scene_with_background(s, color) ==
    layer_mut_set(s, Layer_with_background(layer(s), color))
Scene_with_font(s, font_name) == layer_mut_set(s, Layer_with_font(layer(s), font_name))
Scene_with_font_size(s, size) == layer_mut_set(s, [layer(s) EXCEPT !.font_size = size])
Scene_add_quad(s, quad) == layer_mut_set(s, Layer_add_quad(layer(s), quad))
Scene_add_text(s, text) == layer_mut_set(s, Layer_add_text(layer(s), text))
Scene_add_path(s, path) == layer_mut_set(s, Layer_add_path(layer(s), path))
Scene_add_sprite(s, sprite) == layer_mut_set(s, Layer_add_sprite(layer(s), sprite))
Scene_with_quad(s, quad) == Scene_add_quad(s, quad)
Scene_with_text(s, text) == Scene_add_text(s, text)
Scene_with_path(s, path) == Scene_add_path(s, path)
Scene_with_sprite(s, sprite) == Scene_add_sprite(s, sprite)
\* last().unwrap() and last_mut().unwrap() panic on an empty list.
layer_fails(s) == s.layers = <<>>


(***************************************************************************)
(* Inputs of the model                                                     *)
(***************************************************************************)
\* Window sizes reported by window.inner_size() and carried by Resized.
SizeInputs == {<<0, 0>>, <<800, 600>>}

\* What surface.get_current_texture() can answer: Ok, or one of the
\* variants of wgpu's SurfaceError.
SurfaceErrors == {"Timeout", "Outdated", "Lost", "OutOfMemory"}
SurfaceAnswers == {"Ok"} \cup SurfaceErrors

\* Events handed to Renderer::handle_event.
EventInputs ==
    {[kind |-> k, size |-> sz] : k \in {"Init", "Resumed", "Resized"}, sz \in SizeInputs}
    \cup {[kind |-> k, size |-> <<0, 0>>] : k \in {"RedrawRequested", "CloseRequested"}}

\* The drawable kinds, and the ones registered one by one.
DefaultDrawables == <<"quad", "glyph", "path", "sprite">>
DrawableInputs == {"quad", "glyph"}
\* Registered drawables are capped at MaxDrawables.
MaxDrawables == 4
\* A scene is built with at most MaxSceneOps calls after Scene::new().
MaxSceneOps == 3

Red == <<1, 0, 0, 1>>
Blue == <<0, 0, 1, 1>>
QuadA == Quad_new(<<10, 10>>, <<50, 50>>, Red)
QuadB == Quad_new(<<30, 30>>, <<50, 50>>, Blue)
ClipA == <<100, 100, 200, 150>>
ClipB == <<700, 0 - 20, 200, 900>>
ClipC == <<50, 50, 0 - 30, 40>>

\* Scenes handed to draw_scene: built with the builders of scene.rs, or
\* deserialized (a layer that gives no background color has None).
SceneTwoLayers ==
    with_layer(Scene_add_quad(Scene_new, QuadA),
               Layer_add_quad(Layer_with_blur(Layer_with_background(Layer_default, Blue), 5),
                              QuadB))
SceneClipNoBackground ==
    [layers |-> <<Layer_add_quad(
                     Layer_with_blur(Layer_with_clip(Layer_deserialize_empty, ClipA), 5),
                     QuadA)>>]
SceneNoBackdrop ==
    [layers |-> <<Layer_add_quad(Layer_add_quad(Layer_deserialize_empty, QuadA), QuadB)>>]
SceneThreeLayers ==
    [layers |-> <<Layer_add_sprite(Layer_add_text(Layer_default, "t"), "s"),
                  Layer_with_clip(Layer_deserialize_empty, ClipC),
                  Layer_add_path(Layer_add_quad(Layer_with_clip(Layer_default, ClipB), QuadB),
                                 "p")>>]
SceneEmpty == [layers |-> <<>>]

SceneInputs ==
    {Scene_new, SceneTwoLayers, SceneClipNoBackground, SceneNoBackdrop,
     SceneThreeLayers, SceneEmpty}

(***************************************************************************)
(* State                                                                   *)
(***************************************************************************)
VARIABLES
    surface_resources,  \* SurfaceResourcesManager.surface_resources: Option
    config,             \* SurfaceResourcesManager.config: Option
    drawables,          \* Renderer.drawables
    pc,                 \* where the program is: idle, acquire, acquired,
                        \* layers, returned, aborted
    panic,              \* the call that panicked, "" while running
    call,               \* the call in progress or last completed, its
                        \* argument and its return value
    scene,              \* draw_scene's argument
    li,                 \* render: index of the next layer
    first,              \* render: the local `first`
    frame,              \* render: the acquired SurfaceTexture and the views
    acq,                \* surface_texture: the surface's answers so far and
                        \* the number of SurfaceResources::new calls made
    gpu,                \* contents of the textures, and what was presented
    trace,              \* the device calls of the frame, in order
    executed,           \* the draws the queue has executed in the frame
    built,              \* a Scene under construction: the scene, the last
                        \* call made on it, the number of calls, whether
                        \* a call panicked, the document a layer was
                        \* deserialized from, and the scene before the call
    quad_draws          \* a QuadState drawing layers of many quads: the
                        \* draws of a frame of two layers

vars == <<surface_resources, config, drawables, pc, panic, call, scene, li,
          first, frame, acq, gpu, trace, executed, built, quad_draws>>

(***************************************************************************)
(* surface_wrapper.rs                                                      *)
(***************************************************************************)
\* A handle for a newly created object: it differs from the handle of the
\* object it replaces.
FreshHandle(old) == IF old = <<>> THEN 1 ELSE 3 - old[1]

MultisampleCount == 4

create_texture(handle, width, height, format, samples, label) ==
    [handle |-> handle, width |-> width, height |-> height, format |-> format,
     sample_count |-> samples, label |-> label]

create_bind_group(handle, offscreen_texture) ==
    [handle |-> handle, label |-> "Universal bind group",
     texture |-> [label |-> offscreen_texture.label, handle |-> offscreen_texture.handle]]

\* SurfaceResources::new: configures the surface and creates the offscreen
\* texture, the multisampled texture and the universal bind group.
SurfaceResources_new(handle, surface, cfg) ==
    LET offscreen_texture ==
            create_texture(handle, cfg.width, cfg.height, cfg.format, 1, "Offscreen Texture")
        multisampled_texture ==
            create_texture(handle, cfg.width, cfg.height, cfg.format, MultisampleCount,
                           "Output Texture")
    IN  [surface |-> [surface EXCEPT !.configured = Some(cfg)],
         offscreen_texture |-> offscreen_texture,
         multisampled_texture |-> multisampled_texture,
         universal_bind_group |-> create_bind_group(handle, offscreen_texture)]

\* Mutant: a Timeout is retried every time.
acquire_RetryAlways(retrying, answer) ==
    IF answer = "Ok" THEN "frame"
    ELSE IF answer = "Timeout" THEN "again"
    ELSE IF retrying THEN "panic"
    ELSE "err"

\* One call of surface.get_current_texture() inside SurfaceResources::acquire.
\* retrying: the call is the one made after a Timeout.
\* "frame": acquire returns Ok(frame); "again": acquire calls once more;
\* "panic": expect fails; otherwise acquire returns Err(answer).
acquire(retrying, answer) ==
    IF answer = "Ok" THEN "frame"
    ELSE IF retrying THEN "panic"
    ELSE IF answer = "Timeout" THEN "again"
    ELSE "err"

\* What surface_texture does with Err(e) of its first acquire().
RecreateOn == {"Outdated", "Lost", "OutOfMemory"}

remove_srgb_suffix(format) ==
    CASE format = "Bgra8UnormSrgb" -> "Bgra8Unorm"
      [] format = "Rgba8UnormSrgb" -> "Rgba8Unorm"
      [] OTHER -> format

add_srgb_suffix(format) ==
    CASE format = "Bgra8Unorm" -> "Bgra8UnormSrgb"
      [] format = "Rgba8Unorm" -> "Rgba8UnormSrgb"
      [] OTHER -> format

\* The format the adapter prefers for the surface.
AdapterFormat == "Bgra8UnormSrgb"

get_default_config(width, height) ==
    [usage |-> {"RENDER_ATTACHMENT"}, format |-> AdapterFormat,
     width |-> width, height |-> height, present_mode |-> "Fifo",
     view_formats |-> <<>>]

\* Mutant: the window size is used without the clamp to 1.
InitConfig_NoClamp(window_size, srgb) ==
    LET c0 == [get_default_config(window_size[1], window_size[2])
                 EXCEPT !.usage = {"RENDER_ATTACHMENT", "COPY_SRC"}]
    IN  IF srgb
        THEN [c0 EXCEPT !.view_formats = Append(@, add_srgb_suffix(c0.format))]
        ELSE [c0 EXCEPT !.format = remove_srgb_suffix(c0.format),
                        !.view_formats = Append(@, remove_srgb_suffix(c0.format))]

\* The Init / Resumed arm of handle_event: the configuration it builds.
InitConfig(window_size, srgb) ==
    LET width == Max(window_size[1], 1)
        height == Max(window_size[2], 1)
        c0 == [get_default_config(width, height)
                 EXCEPT !.usage = {"RENDER_ATTACHMENT", "COPY_SRC"}]
    IN  IF srgb
        THEN [c0 EXCEPT !.view_formats = Append(@, add_srgb_suffix(c0.format))]
        ELSE [c0 EXCEPT !.format = remove_srgb_suffix(c0.format),
                        !.view_formats = Append(@, remove_srgb_suffix(c0.format))]

\* Mutant: the new size is stored without the clamp to 1.
ResizedConfig_NoClamp(cfg, new_size) ==
    [cfg EXCEPT !.width = new_size[1], !.height = new_size[2]]

\* The Resized arm of handle_event: the configuration it stores.
ResizedConfig(cfg, new_size) ==
    [cfg EXCEPT !.width = Max(new_size[1], 1), !.height = Max(new_size[2], 1)]

ready == IsSome(surface_resources) /\ IsSome(config)

\* Contents of a texture: what it was cleared to and the draws painted on
\* it since, each named <<layer index, drawable index>>.
Fresh == [base |-> "zero", paints |-> <<>>]
Undefined == [base |-> "undefined", paints |-> <<>>]

White == [base |-> "white", paints |-> <<>>]
Stale == [base |-> "stale", paints |-> <<>>]
StaleRecord == [stale |-> TRUE]

TexRef(t) == [label |-> t.label, handle |-> t.handle]

(***************************************************************************)
(* quad.rs: the quad drawable; renderer.rs: the Drawable trait             *)
(***************************************************************************)
\* Drawable::new: the instance buffer and its bind group, no pipeline yet.
Drawable_new(kind) == [kind |-> kind, buffer |-> <<>>, render_pipeline |-> None]

\* Drawable::surface_updated: (re)builds the render pipeline.
surface_updated(d, format) ==
    [d EXCEPT !.render_pipeline =
        Some([vertex |-> <<d.kind, "vertex">>, fragment |-> <<d.kind, "fragment">>,
              format |-> format, blend |-> "ALPHA_BLENDING",
              sample_count |-> MultisampleCount])]

\* Mutant: a backdrop for every layer.
HasBackdrop_Always(l) == TRUE

\* QuadState::draw: is a backdrop instance synthesized for the layer?
HasBackdrop(l) == IsSome(l.background_color) \/ l.background_blur_radius # 0

\* Mutant: the backdrop always covers the surface, the clip is ignored.
BackdropQuad_FullSurface(l, constants) ==
    with_background_blur(
        Quad_new(Vec2ZERO, constants.surface_size,
                 UnwrapOr(l.background_color, Vec4ONE)),
        l.background_blur_radius)

\* QuadState::draw: the synthesized backdrop quad.
BackdropQuad(l, constants) ==
    with_background_blur(
        Quad_new(IF IsSome(l.clip) THEN xy(Unwrap(l.clip)) ELSE Vec2ZERO,
                 IF IsSome(l.clip) THEN zw(Unwrap(l.clip)) ELSE constants.surface_size,
                 UnwrapOr(l.background_color, Vec4ONE)),
        l.background_blur_radius)

\* Mutant: the backdrop is pushed after the layer's quads.
QuadInstances_BackdropLast(l, constants) ==
    [i \in 1..Len(l.quads) |-> to_instanced(l.quads[i])]
    \o (IF IsSome(l.background_color) \/ l.background_blur_radius # 0
        THEN <<to_instanced(
                 with_background_blur(
                   Quad_new(IF IsSome(l.clip) THEN xy(Unwrap(l.clip)) ELSE Vec2ZERO,
                            IF IsSome(l.clip) THEN zw(Unwrap(l.clip))
                            ELSE constants.surface_size,
                            UnwrapOr(l.background_color, Vec4ONE)),
                   l.background_blur_radius))>>
        ELSE <<>>)

\* QuadState::draw: the instance list `quads`.
QuadInstances(l, constants) ==
    (IF HasBackdrop(l) THEN <<to_instanced(BackdropQuad(l, constants))>> ELSE <<>>)
    \o [i \in 1..Len(l.quads) |-> to_instanced(l.quads[i])]

\* The instance list of the other kinds (glyph.rs, path.rs and sprite.rs are
\* not part of the sources at hand): one record per item of the layer.
ContentInstances(kind, l) ==
    LET items == CASE kind = "glyph" -> l.texts
                   [] kind = "path" -> l.paths
                   [] OTHER -> l.sprites
    IN  [i \in 1..Len(items) |-> [kind |-> kind, item |-> items[i]]]

Instances(kind, l, constants) ==
    IF kind = "quad" THEN QuadInstances(l, constants) ELSE ContentInstances(kind, l)


\* The number of records the instance buffer of a drawable holds.
BufferCapacity == 100000

\* Mutant: a write that is longer than the buffer is accepted.
write_buffer_fails_Never(capacity, data) == FALSE

\* queue.write_buffer(buffer, 0, data) with more data than the buffer
\* holds: the write is rejected as a whole, and the rejection reaches the
\* device's uncaptured-error handler, which panics (none other is set).
write_buffer_fails(capacity, data) == Len(data) > capacity

\* Mutant: the data is written behind what the buffer already holds.
write_buffer_AtEnd(buffer, data) == buffer \o data

\* queue.write_buffer(buffer, 0, data): the first Len(data) records are
\* overwritten, the rest of the buffer is kept.
write_buffer(buffer, data) ==
    data \o SubSeq(buffer, Len(data) + 1, Len(buffer))

\* The first n records of a buffer, as an instanced draw reads them.
ReadBuffer(buffer, n) ==
    [i \in 1..n |-> IF i <= Len(buffer) THEN buffer[i] ELSE StaleRecord]

\* QuadState::draw on layer l, as the number of records it uploads and the
\* draw it issues; None where the panic comes first.
QuadState_draw(d, l, constants) ==
    LET quads == QuadInstances(l, constants)
    IN  IF IsNone(d.render_pipeline) \/ write_buffer_fails(BufferCapacity, quads)
        THEN [records |-> Len(quads), outcome |-> "panic", written |-> None,
              instances |-> None]
        ELSE [records |-> Len(quads), outcome |-> "drawn", written |-> Some(Len(quads)),
              instances |-> Some(Len(quads))]

(***************************************************************************)
(* src/quad.rs: the QuadState that keeps its own list of quads             *)
(***************************************************************************)
\* QuadState::clear
Legacy_QuadState_clear(self) == [self EXCEPT !.quads = <<>>]

\* Drawable::draw for that QuadState: the buffer after the upload, and the
\* draw issued.
Legacy_QuadState_draw(self) ==
    [buffer |-> write_buffer(self.buffer, self.quads),
     vertices |-> 6,
     instances |-> Len(self.quads)]

(***************************************************************************)
(* resources.rs: Resources::render                                         *)
(***************************************************************************)
ATLAS_SIZE == <<1024, 1024>>

\* The push constants of the frame.
ShaderConstants(frame_texture) ==
    [surface_size |-> <<frame_texture.width, frame_texture.height>>,
     atlas_size |-> ATLAS_SIZE,
     clip |-> Vec4ZERO]

\* Mutant: the clip is handed to the pass without the clamps.
ScissorRect_Unclamped(clip, frame_texture) ==
    <<AsU32(clip[1]), AsU32(clip[2]), AsU32(clip[3]), AsU32(clip[4])>>

\* The scissor rectangle set for a layer's clip.
ScissorRect(clip, frame_texture) ==
    <<AsU32(Max(clip[1], 0)), AsU32(Max(clip[2], 0)),
      Min(AsU32(clip[3]), frame_texture.width),
      Min(AsU32(clip[4]), frame_texture.height)>>

\* Mutant: the backdrop is cleared before every pass, never refreshed from
\* the frame.
BackdropRefresh_AlwaysClear(isFirst, fr, sr) ==
    [op |-> "clear_texture", texture |-> TexRef(sr.offscreen_texture)]

\* The backdrop refresh recorded before a drawable's pass.
BackdropRefresh(isFirst, fr, sr) ==
    IF isFirst
    THEN [op |-> "clear_texture", texture |-> TexRef(sr.offscreen_texture)]
    ELSE [op |-> "copy_texture_to_texture", src |-> TexRef(fr.texture),
          dst |-> TexRef(sr.offscreen_texture),
          extent |-> <<fr.texture.width, fr.texture.height>>]

\* Mutant: every pass clears its target.
AttachmentLoad_AlwaysClear(isFirst) == "Clear(WHITE)"

\* The load operation of a drawable's pass.
AttachmentLoad(isFirst) == IF isFirst THEN "Clear(WHITE)" ELSE "Load"

\* Mutant: the draw always covers one instance.
DrawCall_OneInstance(quads) == [vertices |-> 6, instances |-> 1]

\* render_pass.draw(0..6, 0..quads.len() as u32)
DrawCall(quads) == [vertices |-> 6, instances |-> Len(quads)]

\* One iteration of the inner loop: the commands recorded for drawable d
\* (index di) on layer l (index lidx), up to and including its draw.
RenderPass(isFirst, l, lidx, d, di, fr, sr) ==
    LET constants == ShaderConstants(fr.texture)
        quads == Instances(d.kind, l, constants)
    IN  [op |-> "render_pass",
         view |-> fr.multisampled_view,
         resolve_target |-> fr.frame_view,
         load |-> AttachmentLoad(isFirst),
         store |-> "Store",
         scissor |-> IF IsSome(l.clip)
                     THEN Some(ScissorRect(Unwrap(l.clip), fr.texture))
                     ELSE None,
         layer |-> lidx,
         drawable |-> di,
         kind |-> d.kind,
         pipeline |-> d.render_pipeline,
         push_constants |-> constants,
         universal_bind_group |-> sr.universal_bind_group,
         vertices |-> DrawCall(quads).vertices,
         instances |-> DrawCall(quads).instances]

\* The inner loop over the drawables, from index di on.  acc holds the
\* encoder's commands, the device calls, the drawables (their buffers), the
\* local `first`, and whether a draw panicked (no render pipeline).
RECURSIVE RecordDrawables(_, _, _, _, _, _)
RecordDrawables(di, acc, l, lidx, fr, sr) ==
    IF di > Len(acc.drawables) \/ acc.panicked THEN acc
    ELSE
      LET d == acc.drawables[di]
          refresh == BackdropRefresh(acc.first, fr, sr)
          pass == RenderPass(acc.first, l, lidx, d, di, fr, sr)
          quads == Instances(d.kind, l, pass.push_constants)
          before == <<refresh,
                      [op |-> "begin_render_pass", layer |-> lidx, drawable |-> di,
                       load |-> pass.load, store |-> pass.store, view |-> pass.view,
                       resolve_target |-> pass.resolve_target]>>
                    \o (IF IsSome(pass.scissor)
                        THEN <<[op |-> "set_scissor_rect", layer |-> lidx,
                                drawable |-> di, rect |-> Unwrap(pass.scissor)]>>
                        ELSE <<>>)
                    \o <<[op |-> "draw_invoked", layer |-> lidx, drawable |-> di,
                          kind |-> d.kind, quads |-> quads,
                          constants |-> pass.push_constants]>>
      IN  IF IsNone(d.render_pipeline) \/ write_buffer_fails(BufferCapacity, quads)
          THEN [acc EXCEPT !.calls = @ \o before, !.panicked = TRUE]
          ELSE RecordDrawables(di + 1,
                 [acc EXCEPT
                    !.commands = @ \o <<refresh, pass>>,
                    !.calls = @ \o before
                              \o <<[op |-> "write_buffer", layer |-> lidx,
                                    drawable |-> di, records |-> Len(quads)],
                                   [op |-> "draw", layer |-> lidx, drawable |-> di,
                                    vertices |-> DrawCall(quads).vertices,
                                    instances |-> DrawCall(quads).instances,
                                    universal_bind_group |-> sr.universal_bind_group]>>,
                    !.drawables[di].buffer = write_buffer(@, quads),
                    !.first = FALSE],
                 l, lidx, fr, sr)

\* The queue executes one command on the textures.  g: the contents;
\* ex: the executed draws; sr: the live surface resources; ds: the drawables.
ExecCommand(c, g, sr) ==
    CASE c.op = "clear_texture" ->
           IF c.texture = TexRef(sr.offscreen_texture)
           THEN [g EXCEPT !.offscreen = Fresh] ELSE g
      [] c.op = "copy_texture_to_texture" ->
           IF c.dst = TexRef(sr.offscreen_texture)
           THEN [g EXCEPT !.offscreen = g.frame] ELSE g
      [] OTHER ->
           LET target == IF c.load = "Load" THEN g.multisampled ELSE White
               painted == [target EXCEPT !.paints = Append(@, <<c.layer, c.drawable>>)]
           IN  [g EXCEPT !.multisampled = painted, !.frame = painted]

\* What an executed draw reads: its instance records and its backdrop.
ExecutedDraw(c, g, sr, ds) ==
    [layer |-> c.layer, drawable |-> c.drawable, kind |-> c.kind,
     instances |-> ReadBuffer(ds[c.drawable].buffer, c.instances),
     load |-> c.load,
     scissor |-> c.scissor,
     backdrop |-> IF c.universal_bind_group.texture = TexRef(sr.offscreen_texture)
                  THEN g.offscreen ELSE Stale,
     frame_before |-> g.frame]

RECURSIVE ExecCommands(_, _, _, _, _, _)
ExecCommands(cmds, i, g, ex, sr, ds) ==
    IF i > Len(cmds) THEN [gpu |-> g, executed |-> ex]
    ELSE ExecCommands(cmds, i + 1, ExecCommand(cmds[i], g, sr),
                      IF cmds[i].op = "render_pass"
                      THEN Append(ex, ExecutedDraw(cmds[i], g, sr, ds)) ELSE ex,
                      sr, ds)

(***************************************************************************)
(* surface_wrapper.rs: SurfaceResourcesManager                             *)
(***************************************************************************)
\* Mutant: without surface resources the accessor hands out a default.
offscreen_texture_Default ==
    IF IsSome(surface_resources)
    THEN Some(Unwrap(surface_resources).offscreen_texture)
    ELSE Some(create_texture(1, 1, 1, AdapterFormat, 1, "Offscreen Texture"))

\* The accessors: None stands for the panic of unwrap() on None.
offscreen_texture ==
    IF IsSome(surface_resources)
    THEN Some(Unwrap(surface_resources).offscreen_texture) ELSE None
multisampled_texture ==
    IF IsSome(surface_resources)
    THEN Some(Unwrap(surface_resources).multisampled_texture) ELSE None
universal_bind_group ==
    IF IsSome(surface_resources)
    THEN Some(Unwrap(surface_resources).universal_bind_group) ELSE None
format == IF IsSome(config) THEN Some(Unwrap(config).format) ELSE None

AccessorNames ==
    {"offscreen_texture", "multisampled_texture", "universal_bind_group", "format"}

Accessor(name) ==
    CASE name = "offscreen_texture" -> offscreen_texture
      [] name = "multisampled_texture" -> multisampled_texture
      [] name = "universal_bind_group" -> universal_bind_group
      [] OTHER -> format

\* Mutant: a resize creates a new surface instead of reusing the old one.
TakeSurface_Recreated(sr) ==
    [handle |-> FreshHandle(<<Unwrap(sr).surface.handle>>), configured |-> None]

\* The Resized arm: self.surface_resources.take().unwrap().surface, the
\* surface object moved out of the old resources.
TakeSurface(sr) == Unwrap(sr).surface

\* Mutant: a redraw request is handled like Resumed.
Manager_handle_event_RedrawInits(sr, cfg, event, srgb) ==
    CASE event.kind \in {"Init", "Resumed", "RedrawRequested"} ->
           LET c == InitConfig(event.size, srgb)
               surface == [handle |-> FreshHandle(IF IsSome(sr)
                                                  THEN <<Unwrap(sr).surface.handle>>
                                                  ELSE <<>>),
                           configured |-> None]
               handle == FreshHandle(IF IsSome(sr)
                                     THEN <<Unwrap(sr).offscreen_texture.handle>>
                                     ELSE <<>>)
           IN  [sr |-> Some(SurfaceResources_new(handle, surface, c)),
                cfg |-> Some(c), ret |-> TRUE, panicked |-> FALSE, created |-> 1]
      [] event.kind = "Resized" ->
           IF IsNone(cfg) \/ IsNone(sr)
           THEN [sr |-> sr, cfg |-> cfg, ret |-> FALSE, panicked |-> TRUE, created |-> 0]
           ELSE LET c == ResizedConfig(Unwrap(cfg), event.size)
                    handle == FreshHandle(<<Unwrap(sr).offscreen_texture.handle>>)
                IN  [sr |-> Some(SurfaceResources_new(handle, TakeSurface(sr), c)),
                     cfg |-> Some(c), ret |-> TRUE, panicked |-> FALSE, created |-> 1]
      [] OTHER ->
           [sr |-> sr, cfg |-> cfg, ret |-> FALSE, panicked |-> FALSE, created |-> 0]

\* Mutant: a resize takes the surface resources and stores none back.
Manager_handle_event_ResizeTakes(sr, cfg, event, srgb) ==
    CASE event.kind \in {"Init", "Resumed"} ->
           LET c == InitConfig(event.size, srgb)
               surface == [handle |-> FreshHandle(IF IsSome(sr)
                                                  THEN <<Unwrap(sr).surface.handle>>
                                                  ELSE <<>>),
                           configured |-> None]
               handle == FreshHandle(IF IsSome(sr)
                                     THEN <<Unwrap(sr).offscreen_texture.handle>>
                                     ELSE <<>>)
           IN  [sr |-> Some(SurfaceResources_new(handle, surface, c)),
                cfg |-> Some(c), ret |-> TRUE, panicked |-> FALSE, created |-> 1]
      [] event.kind = "Resized" ->
           IF IsNone(cfg) \/ IsNone(sr)
           THEN [sr |-> sr, cfg |-> cfg, ret |-> FALSE, panicked |-> TRUE, created |-> 0]
           ELSE LET c == ResizedConfig(Unwrap(cfg), event.size)
                IN  [sr |-> None, cfg |-> Some(c), ret |-> TRUE, panicked |-> FALSE,
                     created |-> 0]
      [] OTHER ->
           [sr |-> sr, cfg |-> cfg, ret |-> FALSE, panicked |-> FALSE, created |-> 0]

\* SurfaceResourcesManager::handle_event on manager state (sr, cfg):
\* the new state, the value returned, and whether an unwrap() panicked.
Manager_handle_event(sr, cfg, event, srgb) ==
    CASE event.kind \in {"Init", "Resumed"} ->
           LET c == InitConfig(event.size, srgb)
               surface == [handle |-> FreshHandle(IF IsSome(sr)
                                                  THEN <<Unwrap(sr).surface.handle>>
                                                  ELSE <<>>),
                           configured |-> None]
               handle == FreshHandle(IF IsSome(sr)
                                     THEN <<Unwrap(sr).offscreen_texture.handle>>
                                     ELSE <<>>)
           IN  [sr |-> Some(SurfaceResources_new(handle, surface, c)),
                cfg |-> Some(c), ret |-> TRUE, panicked |-> FALSE, created |-> 1]
      [] event.kind = "Resized" ->
           IF IsNone(cfg) \/ IsNone(sr)
           THEN [sr |-> sr, cfg |-> cfg, ret |-> FALSE, panicked |-> TRUE, created |-> 0]
           ELSE LET c == ResizedConfig(Unwrap(cfg), event.size)
                    handle == FreshHandle(<<Unwrap(sr).offscreen_texture.handle>>)
                IN  [sr |-> Some(SurfaceResources_new(handle, TakeSurface(sr), c)),
                     cfg |-> Some(c), ret |-> TRUE, panicked |-> FALSE, created |-> 1]
      [] OTHER ->
           [sr |-> sr, cfg |-> cfg, ret |-> FALSE, panicked |-> FALSE, created |-> 0]

\* Mutant: the resources are recreated on every Outdated / Lost /
\* OutOfMemory, also after a recreation.
surface_texture_RecreateAgain(second, retrying, answer) ==
    LET r == acquire(retrying, answer)
    IN  CASE r = "frame" -> "return"
          [] r = "again" -> "again"
          [] r = "panic" -> "panic"
          [] r = "err" /\ answer \in RecreateOn -> "recreate"
          [] OTHER -> "panic"

\* Mutant: a Timeout is retried as long as the surface answers Timeout.
surface_texture_LoopOnTimeout(second, retrying, answer) ==
    LET r == acquire(retrying, answer)
    IN  CASE r = "frame" -> "return"
          [] r = "again" -> "again"
          [] r = "panic" /\ answer = "Timeout" -> "again"
          [] r = "panic" -> "panic"
          [] r = "err" /\ ~second /\ answer \in RecreateOn -> "recreate"
          [] OTHER -> "panic"

\* surface_texture: what follows one get_current_texture() answer.
\* second: the answer is to the acquire() made after recreating.
surface_texture(second, retrying, answer) ==
    LET r == acquire(retrying, answer)
    IN  CASE r = "frame" -> "return"
          [] r = "again" -> "again"
          [] r = "panic" -> "panic"
          [] r = "err" /\ ~second /\ answer \in RecreateOn -> "recreate"
          [] OTHER -> "panic"

\* The frame get_current_texture() hands out: sized as the surface was
\* last configured.
SurfaceTexture(sr) ==
    [texture |-> [label |-> "Surface Texture", handle |-> sr.surface.handle,
                  width |-> Unwrap(sr.surface.configured).width,
                  height |-> Unwrap(sr.surface.configured).height,
                  format |-> Unwrap(sr.surface.configured).format]]

(***************************************************************************)
(* The program                                                             *)
(***************************************************************************)
NoCall == [op |-> "none", arg |-> None, ret |-> None]
\* entry: the surface resources surface_texture was entered with.
\* frames: the frames the surface has handed out to the call.
NoAcq == [answers |-> <<>>, created |-> 0, second |-> FALSE, retrying |-> FALSE,
          entry |-> None, frames |-> 0]
NoScene == [layers |-> <<>>]

Init ==
    /\ surface_resources = None
    /\ config = None
    /\ drawables = <<>>
    /\ pc = "idle"
    /\ panic = ""
    /\ call = NoCall
    /\ scene = NoScene
    /\ li = 0
    /\ first = TRUE
    /\ frame = None
    /\ acq = NoAcq
    /\ gpu = [offscreen |-> Fresh, multisampled |-> Fresh, frame |-> Undefined,
              presented |-> None]
    /\ trace = <<>>
    /\ executed = <<>>
    /\ built = [scene |-> Scene_new, op |-> "new", ops |-> 0, panicked |-> FALSE,
                doc |-> None, before |-> None]
    /\ quad_draws = [prev |-> None, last |-> None]

renderVars == <<scene, li, first, frame, acq, trace, executed>>

\* Renderer::with_drawable::<T>()
WithDrawable(kind) ==
    /\ pc = "idle"
    /\ Len(drawables) < MaxDrawables
    /\ drawables' = Append(drawables, Drawable_new(kind))
    /\ call' = [op |-> "with_drawable", arg |-> Some(kind), ret |-> None]
    /\ pc' = "returned"
    /\ UNCHANGED <<surface_resources, config, panic, gpu, renderVars>>
    /\ UNCHANGED <<built, quad_draws>>

\* Renderer::with_default_drawables()
WithDefaultDrawables ==
    /\ pc = "idle"
    /\ Len(drawables) + Len(DefaultDrawables) <= MaxDrawables
    /\ drawables' = Append(Append(Append(Append(drawables,
                        Drawable_new("quad")), Drawable_new("glyph")),
                        Drawable_new("path")), Drawable_new("sprite"))
    /\ call' = [op |-> "with_default_drawables", arg |-> None, ret |-> None]
    /\ pc' = "returned"
    /\ UNCHANGED <<surface_resources, config, panic, gpu, renderVars>>
    /\ UNCHANGED <<built, quad_draws>>

\* Mutant: only the first registered drawable is told about the transition.
UpdateDrawables_FirstOnly(ds, transition, m) ==
    IF transition /\ ds # <<>>
    THEN [drawables |-> [ds EXCEPT ![1] = surface_updated(ds[1], Unwrap(m.cfg).format)],
          updated |-> <<1>>]
    ELSE [drawables |-> ds, updated |-> <<>>]

\* Renderer::handle_event: when Resources::handle_event returned true,
\* surface_updated is invoked on every drawable, in order.  updated: the
\* indices of the drawables it was invoked on.
UpdateDrawables(ds, transition, m) ==
    IF transition
    THEN [drawables |-> [i \in 1..Len(ds) |-> surface_updated(ds[i], Unwrap(m.cfg).format)],
          updated |-> [i \in 1..Len(ds) |-> i]]
    ELSE [drawables |-> ds, updated |-> <<>>]

\* Renderer::handle_event, with Resources::handle_event (srgb = false).
HandleEvent(event) ==
    /\ pc = "idle"
    /\ LET m == Manager_handle_event(surface_resources, config, event, FALSE)
           u == UpdateDrawables(drawables, m.ret, m)
       IN  /\ surface_resources' = m.sr
           /\ config' = m.cfg
           /\ call' = [op |-> "handle_event", arg |-> Some(event),
                       ret |-> IF m.panicked THEN None ELSE Some(m.ret),
                       created |-> m.created,
                       updated |-> u.updated,
                       before |-> [sr |-> surface_resources, cfg |-> config,
                                   drawables |-> drawables]]
           /\ pc' = IF m.panicked THEN "aborted" ELSE "returned"
           /\ panic' = IF m.panicked THEN "handle_event" ELSE panic
           /\ drawables' = u.drawables
           /\ gpu' = IF m.created > 0
                     THEN [gpu EXCEPT !.offscreen = Fresh, !.multisampled = Fresh]
                     ELSE gpu
    /\ UNCHANGED renderVars
    /\ UNCHANGED <<built, quad_draws>>

\* A caller reads one of the manager's accessors.
CallAccessor(name) ==
    /\ pc = "idle"
    /\ call' = [op |-> name, arg |-> None, ret |-> Accessor(name)]
    /\ pc' = IF IsNone(Accessor(name)) THEN "aborted" ELSE "returned"
    /\ panic' = IF IsNone(Accessor(name)) THEN name ELSE panic
    /\ UNCHANGED <<surface_resources, config, drawables, gpu, renderVars>>
    /\ UNCHANGED <<built, quad_draws>>

\* Renderer::draw_scene(scene) is entered; Resources::render calls
\* surface_texture, whose first unwrap() panics without surface resources.
DrawScene(s) ==
    /\ pc = "idle"
    /\ scene' = s
    /\ call' = [op |-> "draw_scene", arg |-> None, ret |-> None]
    /\ pc' = IF IsSome(surface_resources) THEN "acquire" ELSE "aborted"
    /\ panic' = IF IsSome(surface_resources) THEN panic ELSE "surface_texture"
    /\ acq' = [NoAcq EXCEPT !.entry = surface_resources]
    /\ UNCHANGED <<surface_resources, config, drawables, gpu, li, first, frame,
                   trace, executed>>
    /\ UNCHANGED <<built, quad_draws>>

\* One surface.get_current_texture() and what surface_texture does next.
GetCurrentTexture(answer) ==
    /\ pc = "acquire"
    /\ LET next == surface_texture(acq.second, acq.retrying, answer)
           sr == Unwrap(surface_resources)
           answers == Append(acq.answers, answer)
       IN  CASE next = "return" ->
                  /\ frame' = Some(SurfaceTexture(sr))
                  /\ acq' = [acq EXCEPT !.answers = answers, !.frames = @ + 1]
                  /\ pc' = "acquired"
                  /\ gpu' = [gpu EXCEPT !.frame = Undefined]
                  /\ UNCHANGED <<surface_resources, panic>>
             [] next = "again" ->
                  /\ acq' = [acq EXCEPT !.answers = answers, !.retrying = TRUE]
                  /\ UNCHANGED <<surface_resources, panic, pc, frame, gpu>>
             [] next = "recreate" ->
                  /\ surface_resources' =
                       Some(SurfaceResources_new(
                              FreshHandle(<<sr.offscreen_texture.handle>>),
                              sr.surface, Unwrap(config)))
                  /\ acq' = [acq EXCEPT !.answers = answers, !.created = @ + 1,
                                         !.second = TRUE, !.retrying = FALSE]
                  /\ gpu' = [gpu EXCEPT !.offscreen = Fresh, !.multisampled = Fresh]
                  /\ UNCHANGED <<panic, pc, frame>>
             [] OTHER ->
                  /\ acq' = [acq EXCEPT !.answers = answers]
                  /\ pc' = "aborted"
                  /\ panic' = "surface_texture"
                  /\ UNCHANGED <<surface_resources, frame, gpu>>
    /\ UNCHANGED <<config, drawables, call, scene, li, first, trace, executed>>
    /\ UNCHANGED <<built, quad_draws>>

\* Mutant: the view is of the multisampled texture the call was entered
\* with.
MultisampledView_AtEntry == TexRef(Unwrap(acq.entry).multisampled_texture)

\* self.surface_resources_manager.multisampled_texture().create_view(..),
\* evaluated after surface_texture has returned.
MultisampledView == TexRef(Unwrap(multisampled_texture))

\* Resources::render, from the acquired frame to the loop over the layers:
\* the views of the frame and of the multisampled texture.
RenderBegin ==
    /\ pc = "acquired"
    /\ frame' = Some([texture |-> Unwrap(frame).texture,
                       frame_view |-> TexRef(Unwrap(frame).texture),
                       multisampled_view |-> MultisampledView])
    /\ li' = 1
    /\ first' = TRUE
    /\ acq' = [NoAcq EXCEPT !.frames = acq.frames, !.created = acq.created,
                             !.entry = acq.entry]
    /\ trace' = <<>>
    /\ executed' = <<>>
    /\ pc' = "layers"
    /\ UNCHANGED <<surface_resources, config, drawables, panic, call, scene, gpu>>
    /\ UNCHANGED <<built, quad_draws>>

\* Mutant: the loop over the layers ends one layer early.
LoopDone_Early == li >= Len(scene.layers)

\* for layer in scene.layers.iter(): the iterator is exhausted.
LoopDone == li > Len(scene.layers)

\* device.create_command_encoder(..) at the head of a layer's iteration.
CreateCommandEncoder(lidx) == [op |-> "create_command_encoder", layer |-> lidx]

\* Mutant: the layer's encoder is dropped without a submission.
Submit_Never(lidx) == <<>>

\* queue.submit(Some(encoder.finish())) at the end of a layer's iteration.
Submit(lidx) == <<[op |-> "submit", layer |-> lidx]>>

\* One iteration of the loop over the layers: the encoder is created, the
\* drawables record into it, and it is submitted.
RenderLayer ==
    /\ pc = "layers"
    /\ ~LoopDone
    /\ LET sr == Unwrap(surface_resources)
           fr == Unwrap(frame)
           rec == RecordDrawables(1,
                    [commands |-> <<>>,
                     calls |-> <<CreateCommandEncoder(li)>>,
                     drawables |-> drawables, first |-> first, panicked |-> FALSE],
                    scene.layers[li], li, fr, sr)
           run == ExecCommands(rec.commands, 1, gpu, executed, sr, rec.drawables)
       IN  IF rec.panicked
           THEN /\ trace' = trace \o rec.calls
                /\ pc' = "aborted"
                /\ panic' = "draw"
                /\ UNCHANGED <<drawables, first, li, gpu, executed>>
           ELSE /\ trace' = trace \o rec.calls \o Submit(li)
                /\ drawables' = rec.drawables
                /\ first' = rec.first
                /\ gpu' = run.gpu
                /\ executed' = run.executed
                /\ li' = li + 1
                /\ UNCHANGED <<pc, panic>>
    /\ UNCHANGED <<surface_resources, config, call, scene, frame, acq>>
    /\ UNCHANGED <<built, quad_draws>>

\* frame.present(); render returns Ok(()) and draw_scene returns true.
Present ==
    /\ pc = "layers"
    /\ LoopDone
    /\ gpu' = [gpu EXCEPT !.presented = Some(gpu.frame)]
    /\ trace' = Append(trace, [op |-> "present"])
    /\ call' = [call EXCEPT !.ret = Some(TRUE)]
    /\ pc' = "returned"
    /\ UNCHANGED <<surface_resources, config, drawables, panic, scene, li, first,
                   frame, acq, executed>>
    /\ UNCHANGED <<built, quad_draws>>

\* Control is back with the caller: the locals of the finished call are
\* gone, and what a finished frame left in the textures and the instance
\* buffers is, for whatever runs next, data of an earlier frame.
Return ==
    /\ pc = "returned"
    /\ pc' = "idle"
    /\ call' = NoCall
    /\ scene' = NoScene
    /\ li' = 0
    /\ first' = TRUE
    /\ frame' = None
    /\ acq' = NoAcq
    /\ trace' = <<>>
    /\ executed' = <<>>
    /\ IF call.op = "draw_scene"
       THEN /\ gpu' = [offscreen |-> Stale, multisampled |-> Stale,
                       frame |-> Undefined, presented |-> None]
            /\ drawables' = [i \in 1..Len(drawables) |->
                               [drawables[i] EXCEPT !.buffer = <<>>]]
       ELSE UNCHANGED <<gpu, drawables>>
    /\ UNCHANGED <<surface_resources, config, panic>>
    /\ UNCHANGED <<built, quad_draws>>

Next ==
    \/ \E kind \in DrawableInputs : WithDrawable(kind)
    \/ WithDefaultDrawables
    \/ \E event \in EventInputs : HandleEvent(event)
    \/ \E name \in AccessorNames : CallAccessor(name)
    \/ \E s \in SceneInputs : DrawScene(s)
    \/ \E answer \in SurfaceAnswers : GetCurrentTexture(answer)
    \/ RenderBegin
    \/ RenderLayer
    \/ Present
    \/ Return

Spec == Init /\ [][Next]_vars

(***************************************************************************)
(* scene.rs: building a Scene                                              *)
(***************************************************************************)
rendererVars == <<surface_resources, config, drawables, pc, panic, call, scene, li,
                  first, frame, acq, gpu, trace, executed>>

\* One call on the scene under construction.  needsLayer: the call goes
\* through layer() or layer_mut(); result: the scene it leaves.
SceneStep(op, needsLayer, result) ==
    /\ ~built.panicked
    /\ built.ops < MaxSceneOps
    /\ built' = IF needsLayer /\ layer_fails(built.scene)
                THEN [built EXCEPT !.op = op, !.ops = @ + 1, !.panicked = TRUE,
                                   !.before = Some(built.scene)]
                ELSE [scene |-> result, op |-> op, ops |-> built.ops + 1,
                      panicked |-> FALSE, doc |-> None, before |-> Some(built.scene)]
    /\ UNCHANGED <<rendererVars, quad_draws>>

LayerInputs == {Layer_default, Layer_deserialize_empty}

SceneAddLayer ==
    \E l \in LayerInputs : SceneStep("add_layer", FALSE, add_layer(built.scene, l))
SceneWithLayer ==
    \E l \in LayerInputs : SceneStep("with_layer", FALSE, with_layer(built.scene, l))
SceneLayer == SceneStep("layer", TRUE, built.scene)
SceneLayerMut == SceneStep("layer_mut", TRUE, built.scene)
SceneWithClip == SceneStep("with_clip", TRUE, Scene_with_clip(built.scene, ClipA))
SceneWithBlur == SceneStep("with_blur", TRUE, Scene_with_blur(built.scene, 5))
SceneWithBackground ==
    SceneStep("with_background", TRUE, Scene_with_background(built.scene, Blue))
SceneWithFont == SceneStep("with_font", TRUE, Scene_with_font(built.scene, "Mono"))
SceneWithFontSize ==
    SceneStep("with_font_size", TRUE, Scene_with_font_size(built.scene, 20))
SceneAddQuad == SceneStep("add_quad", TRUE, Scene_add_quad(built.scene, QuadA))
SceneWithQuad == SceneStep("with_quad", TRUE, Scene_with_quad(built.scene, QuadB))
SceneAddText == SceneStep("add_text", TRUE, Scene_add_text(built.scene, "t"))
SceneWithText == SceneStep("with_text", TRUE, Scene_with_text(built.scene, "u"))
SceneAddPath == SceneStep("add_path", TRUE, Scene_add_path(built.scene, "p"))
SceneWithPath == SceneStep("with_path", TRUE, Scene_with_path(built.scene, "q"))
SceneAddSprite == SceneStep("add_sprite", TRUE, Scene_add_sprite(built.scene, "s"))
SceneWithSprite == SceneStep("with_sprite", TRUE, Scene_with_sprite(built.scene, "r"))

SceneNext ==
    \/ SceneAddLayer
    \/ SceneWithLayer
    \/ SceneLayer
    \/ SceneLayerMut
    \/ SceneWithClip
    \/ SceneWithBlur
    \/ SceneWithBackground
    \/ SceneWithFont
    \/ SceneWithFontSize
    \/ SceneAddQuad
    \/ SceneWithQuad
    \/ SceneAddText
    \/ SceneWithText
    \/ SceneAddPath
    \/ SceneWithPath
    \/ SceneAddSprite
    \/ SceneWithSprite

SceneSpec == Init /\ [][SceneNext]_vars

(***************************************************************************)
(* scene.rs: deserializing a Layer                                         *)
(***************************************************************************)
LayerFields ==
    {"clip", "background_blur_radius", "background_color", "font_name", "font_size",
     "quads", "texts", "paths", "sprites"}

\* The value a document gives a field, when it gives it.
DocValue(f) ==
    CASE f = "clip" -> ClipA
      [] f = "background_blur_radius" -> 5
      [] f = "background_color" -> Blue
      [] f = "font_name" -> "Mono"
      [] f = "font_size" -> 20
      [] f = "quads" -> <<QuadA>>
      [] f = "texts" -> <<"t">>
      [] f = "paths" -> <<"p">>
      [] OTHER -> <<"s">>

LayerDocuments == {[f \in S |-> DocValue(f)] : S \in SUBSET LayerFields}

\* A Layer is deserialized from doc.
DeserializeLayer(doc) ==
    /\ built' = [scene |-> [layers |-> <<Layer_deserialize(doc)>>], op |-> "deserialize",
                 ops |-> 0, panicked |-> FALSE, doc |-> Some(doc), before |-> None]
    /\ UNCHANGED <<rendererVars, quad_draws>>

\* Layer::default() is called.
DefaultLayer ==
    /\ built' = [scene |-> [layers |-> <<Layer_default>>], op |-> "default",
                 ops |-> 0, panicked |-> FALSE, doc |-> None, before |-> None]
    /\ UNCHANGED <<rendererVars, quad_draws>>

LayerNext ==
    \/ \E doc \in LayerDocuments : DeserializeLayer(doc)
    \/ DefaultLayer

LayerSpec == Init /\ [][LayerNext]_vars

(***************************************************************************)
(* quad.rs: QuadState::draw on layers of many quads                        *)
(***************************************************************************)
\* The numbers of quads of the layers drawn.
QuadCounts == {0, 1, BufferCapacity - 1, BufferCapacity, BufferCapacity + 1}

\* The layers the quads are added to: with a background color, without
\* color and blur, and clipped with a blur and no color.
LayerBases ==
    {Layer_default, Layer_deserialize_empty,
     Layer_with_blur(Layer_with_clip(Layer_deserialize_empty, ClipA), 5)}

\* A list of one quad more than the instance buffer holds.
QuadList == [i \in 1..(BufferCapacity + 1) |-> QuadA]

\* A layer of n quads.
ManyQuads(base, n) == [base EXCEPT !.quads = SubSeq(QuadList, 1, n)]

\* A QuadState whose pipeline was built draws a layer of n quads on an
\* 800x600 frame, the first or the second layer of a frame of two; it
\* draws the second only if the first draw did not panic.
DrawManyQuads(base, n) ==
    /\ quad_draws.prev = None
    /\ IF quad_draws.last = None THEN TRUE
       ELSE Unwrap(quad_draws.last).outcome = "drawn"
    /\ LET d == surface_updated(Drawable_new("quad"), remove_srgb_suffix(AdapterFormat))
           constants == [surface_size |-> <<800, 600>>, atlas_size |-> ATLAS_SIZE,
                         clip |-> Vec4ZERO]
           r == QuadState_draw(d, ManyQuads(base, n), constants)
       IN  quad_draws' =
             [prev |-> quad_draws.last,
              last |-> Some([quads |-> n, backdrop |-> HasBackdrop(base),
                             clip |-> base.clip,
                             records |-> r.records, outcome |-> r.outcome,
                             written |-> r.written, instances |-> r.instances])]
    /\ UNCHANGED <<rendererVars, built>>

CapacityNext == \E base \in LayerBases : \E n \in QuadCounts : DrawManyQuads(base, n)

CapacitySpec == Init /\ [][CapacityNext]_vars

(***************************************************************************)
(* Properties                                                              *)
(***************************************************************************)
IsInvocation(c) == c.op = "draw_invoked"
Invocations == SelectSeq(trace, IsInvocation)
IsQuadInvocation(c) == c.op = "draw_invoked" /\ c.kind = "quad"
QuadInvocations == SelectSeq(trace, IsQuadInvocation)
KindsOf(ds) == [i \in 1..Len(ds) |-> ds[i].kind]
\* draw_scene is past the acquisition and has not panicked.
Rendering == call.op = "draw_scene" /\ pc \in {"layers", "returned"}
NKinds == Len(DefaultDrawables)
\* The layer's quads as instances, in list order.
LayerQuads(l) == [i \in 1..Len(l.quads) |-> to_instanced(l.quads[i])]
\* A layer for which the quad drawable synthesizes a backdrop.
PaintsBackdrop(l) == l.background_color # None \/ l.background_blur_radius # 0

\* The invocations are those of the layers so far, in the order of
\* (layer, kind), one per pair.
InvocationOrder ==
    /\ Len(Invocations) = NKinds * (li - 1)
    /\ \A k \in 1..Len(Invocations) :
         /\ Invocations[k].layer = ((k - 1) \div NKinds) + 1
         /\ Invocations[k].drawable = ((k - 1) % NKinds) + 1
         /\ Invocations[k].kind = DefaultDrawables[((k - 1) % NKinds) + 1]

PaintsBefore(k) == [j \in 1..(k - 1) |-> <<executed[j].layer, executed[j].drawable>>]
ExpectedBackdrop(k) ==
    IF k = 1 THEN [base |-> "zero", paints |-> <<>>]
    ELSE [base |-> "white", paints |-> PaintsBefore(k)]

\* C2: the backdrop sampled by a draw is cleared for the first draw of the
\* frame and otherwise is the frame as painted by all earlier draws; the
\* presented frame holds every draw, the last layer's on top.
C2_BackdropIsFrameSoFar ==
    Rendering =>
        /\ \A k \in 1..Len(executed) :
             /\ executed[k].backdrop = ExpectedBackdrop(k)
             /\ k > 1 => executed[k].layer >= executed[k - 1].layer
        /\ Len(executed) = Len(Invocations)
        /\ \A k \in 1..Len(executed) :
             /\ executed[k].layer = Invocations[k].layer
             /\ executed[k].drawable = Invocations[k].drawable
             /\ executed[k].instances = Invocations[k].quads
        /\ (pc = "returned" /\ executed # <<>>) =>
             /\ gpu.presented =
                  Some([base |-> "white", paints |-> PaintsBefore(Len(executed) + 1)])
             /\ Last(Unwrap(gpu.presented).paints)[1] = Len(scene.layers)

\* Two layers with a quad each: the second layer's quad draw samples a
\* backdrop that holds the first layer's quad draw.
C2_Witness ==
    /\ pc = "returned" /\ call.op = "draw_scene" /\ scene = SceneTwoLayers
    /\ \E k \in 1..Len(executed) :
         /\ executed[k].layer = 2 /\ executed[k].kind = "quad"
         /\ \E j \in 1..Len(executed[k].backdrop.paints) :
              executed[k].backdrop.paints[j][1] = 1
    /\ Last(Unwrap(gpu.presented).paints)[1] = 2

C4_BackdropInstance ==
    Rendering =>
        \A k \in 1..Len(QuadInvocations) :
            LET c == QuadInvocations[k]
                l == scene.layers[c.layer]
            IN  Len(c.quads) > Len(l.quads) =>
                  /\ c.quads[1].top_left =
                       (IF l.clip = None THEN <<0, 0>>
                        ELSE <<l.clip[1][1], l.clip[1][2]>>)
                  /\ c.quads[1].size =
                       (IF l.clip = None
                        THEN <<Unwrap(frame).texture.width, Unwrap(frame).texture.height>>
                        ELSE <<l.clip[1][3], l.clip[1][4]>>)
                  /\ c.constants.surface_size =
                       <<Unwrap(frame).texture.width, Unwrap(frame).texture.height>>
                  /\ c.quads[1].color =
                       (IF l.background_color = None THEN <<1, 1, 1, 1>>
                        ELSE l.background_color[1])
                  /\ c.quads[1].blur = l.background_blur_radius

\* A clipped layer without a color and an unclipped one with a color have
\* both been drawn with a backdrop.
C4_Witness ==
    /\ Rendering /\ scene = SceneThreeLayers /\ Len(QuadInvocations) = 3
    /\ QuadInvocations[3].quads[1].top_left = <<700, 0 - 20>>
    /\ QuadInvocations[1].quads[1].size = <<800, 600>>

\* C5: Scene::new() has exactly one layer, and rendering it makes the quad
\* draw issue exactly one instance: the backdrop at (0,0), of the size of
\* the surface, opaque white, blur 0.
C5_NewSceneBackdrop ==
    /\ Len(Scene_new.layers) = 1
    /\ (Rendering /\ scene = Scene_new) =>
         \A k \in 1..Len(QuadInvocations) :
            /\ QuadInvocations[k].quads =
                 <<[top_left |-> <<0, 0>>,
                    size |-> <<Unwrap(config).width, Unwrap(config).height>>,
                    color |-> <<1, 1, 1, 1>>,
                    blur |-> 0]>>
            /\ \E j \in 1..Len(trace) :
                 /\ trace[j].op = "draw" /\ trace[j].layer = 1
                 /\ trace[j].drawable = QuadInvocations[k].drawable
                 /\ trace[j].instances = 1

C5_Witness ==
    /\ pc = "returned" /\ call.op = "draw_scene" /\ scene = Scene_new
    /\ Len(QuadInvocations) = 1
    /\ Unwrap(config).width = 800

\* surface_texture is running or has just ended, with these answers of
\* get_current_texture() so far.
Answers == acq.answers

\* C6: after a first Timeout exactly one further attempt is made: on Ok
\* the frame is returned and nothing is recreated, on any error the
\* program aborts, with no recreation and no third attempt.
C6_TimeoutRetriedOnce ==
    (Answers # <<>> /\ Answers[1] = "Timeout") =>
        /\ Len(Answers) <= 2
        /\ acq.created = 0
        /\ surface_resources = acq.entry
        /\ Len(Answers) = 1 => (pc = "acquire" /\ frame = None)
        /\ Len(Answers) = 2 =>
             IF Answers[2] = "Ok"
             THEN pc = "acquired" /\ frame # None
             ELSE pc = "aborted" /\ frame = None

\* Timeout, then Ok: the frame is returned by the second attempt.
C6_Witness ==
    /\ Answers = <<"Timeout", "Ok">>
    /\ pc = "acquired"
    /\ acq.created = 0

\* The resources were recreated once, from the stored configuration, around
\* the surface surface_texture was entered with.
RecreatedOnce ==
    LET sr == Unwrap(surface_resources)
        old == Unwrap(acq.entry)
    IN  /\ acq.created = 1
        /\ sr.surface.handle = old.surface.handle
        /\ sr.surface.configured = config
        /\ sr.offscreen_texture.handle # old.offscreen_texture.handle
        /\ sr.multisampled_texture.handle # old.multisampled_texture.handle
        /\ sr.universal_bind_group.handle # old.universal_bind_group.handle
        /\ sr.universal_bind_group.texture = TexRef(sr.offscreen_texture)
        /\ \A t \in {sr.offscreen_texture, sr.multisampled_texture} :
             /\ t.width = Unwrap(config).width
             /\ t.height = Unwrap(config).height
             /\ t.format = Unwrap(config).format

\* C7 as stated: after a first Outdated, Lost or OutOfMemory the resources
\* are recreated once and exactly one more attempt is made, whose failure,
\* Timeout included, is fatal.
C7_SingleAttemptAfterRecreate ==
    (Answers # <<>> /\ Answers[1] \in {"Outdated", "Lost", "OutOfMemory"}) =>
        /\ RecreatedOnce
        /\ Len(Answers) <= 2
        /\ Len(Answers) = 2 =>
             IF Answers[2] = "Ok" THEN pc = "acquired" ELSE pc = "aborted"

\* C7 amended: after a first Outdated, Lost or OutOfMemory exactly one
\* recreation cycle is performed (same surface, stored configuration) and
\* acquire() is called once more: it makes one attempt and, if that attempt
\* times out, one further attempt; any other failure of the first of
\* these, and any failure of the second, is fatal.
C7_RecreateThenAcquire ==
    (Answers # <<>> /\ Answers[1] \in {"Outdated", "Lost", "OutOfMemory"}) =>
        /\ RecreatedOnce
        /\ Len(Answers) <= 3
        /\ Len(Answers) = 1 => pc = "acquire"
        /\ Len(Answers) = 2 =>
             CASE Answers[2] = "Ok" -> pc = "acquired" /\ frame # None
               [] Answers[2] = "Timeout" -> pc = "acquire" /\ frame = None
               [] OTHER -> pc = "aborted" /\ frame = None
        /\ Len(Answers) = 3 =>
             /\ Answers[2] = "Timeout"
             /\ IF Answers[3] = "Ok"
                THEN pc = "acquired" /\ frame # None
                ELSE pc = "aborted" /\ frame = None

\* Outdated, one recreation, a Timeout, and the frame on the third attempt.
C7_Witness ==
    /\ Answers = <<"Outdated", "Timeout", "Ok">>
    /\ pc = "acquired"
    /\ acq.created = 1

\* C8 as stated: draw_scene returns true exactly when the frame was
\* presented, and a render that fails (the surface answers an error that
\* is not recovered from) is logged and returned as false, never an abort.
C8_FailureReturnsFalse ==
    call.op = "draw_scene" =>
        /\ pc = "returned" => (call.ret = Some(TRUE) <=> gpu.presented # None)
        /\ (Answers # <<>> /\ Last(Answers) # "Ok" /\ pc # "acquire") =>
               (pc = "returned" /\ call.ret = Some(FALSE))

\* C9: while the manager is Uninitialized, the accessors, surface_texture
\* and render panic: none returns a value, no frame is acquired or
\* presented.
C9_UninitializedIsFatal ==
    /\ (call.op \in {"offscreen_texture", "multisampled_texture",
                     "universal_bind_group"} /\ surface_resources = None) =>
           (pc = "aborted" /\ call.ret = None /\ panic = call.op)
    /\ (call.op = "format" /\ config = None) =>
           (pc = "aborted" /\ call.ret = None /\ panic = call.op)
    /\ (call.op = "draw_scene" /\ surface_resources = None) =>
           /\ pc = "aborted"
           /\ panic = "surface_texture"
           /\ Answers = <<>>
           /\ frame = None
           /\ gpu.presented = None
           /\ trace = <<>>
    /\ (surface_resources = None /\ config = None) =>
           (frame = None /\ gpu.presented = None)

\* An accessor was called on the Uninitialized manager.
C9_Witness ==
    /\ surface_resources = None /\ config = None
    /\ call.op = "offscreen_texture"
    /\ pc = "aborted"

\* C10: Resized(w, h) handled in the Ready state stores width max(w, 1)
\* and height max(h, 1) and recreates the backdrop texture, the
\* multisampled texture and the universal bind group at that size.
C10_ResizeClamps ==
    (pc = "returned" /\ call.op = "handle_event" /\ call.arg[1].kind = "Resized") =>
        LET w == call.arg[1].size[1]
            h == call.arg[1].size[2]
            sr == Unwrap(surface_resources)
            old == Unwrap(call.before.sr)
        IN  /\ Unwrap(config).width = (IF w >= 1 THEN w ELSE 1)
            /\ Unwrap(config).height = (IF h >= 1 THEN h ELSE 1)
            /\ \A t \in {sr.offscreen_texture, sr.multisampled_texture} :
                 /\ t.width = Unwrap(config).width
                 /\ t.height = Unwrap(config).height
            /\ sr.offscreen_texture.handle # old.offscreen_texture.handle
            /\ sr.multisampled_texture.handle # old.multisampled_texture.handle
            /\ sr.universal_bind_group.handle # old.universal_bind_group.handle
            /\ sr.universal_bind_group.texture = TexRef(sr.offscreen_texture)
            /\ call.created = 1
            /\ call.ret = Some(TRUE)

\* Stored 800x600, Resized(0, 0): stored 1x1 and 1x1 textures.
C10_Witness ==
    /\ pc = "returned" /\ call.op = "handle_event"
    /\ call.arg[1] = [kind |-> "Resized", size |-> <<0, 0>>]
    /\ Unwrap(call.before.cfg).width = 800 /\ Unwrap(call.before.cfg).height = 600
    /\ Unwrap(config).width = 1 /\ Unwrap(config).height = 1
    /\ Unwrap(surface_resources).offscreen_texture.width = 1
    /\ Unwrap(surface_resources).multisampled_texture.height = 1

\* C11: a Resized event handled in the Ready state keeps the same surface
\* object, moved into the new resources and configured with the stored
\* configuration, and changes no field of the stored configuration other
\* than width and height.
C11_ResizeKeepsSurface ==
    (pc = "returned" /\ call.op = "handle_event" /\ call.arg[1].kind = "Resized") =>
        LET sr == Unwrap(surface_resources)
            old == Unwrap(call.before.sr)
            cfg == Unwrap(config)
            oldcfg == Unwrap(call.before.cfg)
        IN  /\ sr.surface.handle = old.surface.handle
            /\ sr.surface.configured = config
            /\ cfg.format = oldcfg.format
            /\ cfg.usage = oldcfg.usage
            /\ cfg.present_mode = oldcfg.present_mode
            /\ cfg.view_formats = oldcfg.view_formats
            /\ DOMAIN cfg = DOMAIN oldcfg

\* The second surface created (Init, then Resumed), stored 1x1, resized to
\* 800x600: still the second surface, the format as stored before.
C11_Witness ==
    /\ pc = "returned" /\ call.op = "handle_event"
    /\ call.arg[1] = [kind |-> "Resized", size |-> <<800, 600>>]
    /\ Unwrap(call.before.cfg).width = 1
    /\ Unwrap(call.before.sr).surface.handle = 2
    /\ Unwrap(surface_resources).surface.handle = 2
    /\ Unwrap(config).width = 800
    /\ Unwrap(config).format = "Bgra8Unorm"

\* C12: in every Ready state the backdrop texture and the multisampled
\* texture have the stored configuration's width, height and format, the
\* backdrop has 1 sample and the render target 4, and the stored width and
\* height are at least 1.
C12_ResourcesMatchConfig ==
    (surface_resources # None /\ config # None) =>
        LET sr == surface_resources[1]
            cfg == config[1]
        IN  /\ sr.offscreen_texture.width = cfg.width
            /\ sr.offscreen_texture.height = cfg.height
            /\ sr.offscreen_texture.format = cfg.format
            /\ sr.multisampled_texture.width = cfg.width
            /\ sr.multisampled_texture.height = cfg.height
            /\ sr.multisampled_texture.format = cfg.format
            /\ sr.offscreen_texture.sample_count = 1
            /\ sr.multisampled_texture.sample_count = 4
            /\ cfg.width >= 1
            /\ cfg.height >= 1

\* A window of size 0x0, and an acquisition that recovered by recreating
\* the resources: 1x1 textures.
C12_Witness ==
    /\ pc = "acquired" /\ acq.created = 1
    /\ Unwrap(config).width = 1 /\ Unwrap(config).height = 1
    /\ Unwrap(surface_resources).offscreen_texture.width = 1
    /\ Unwrap(surface_resources).offscreen_texture.handle
         # Unwrap(acq.entry).offscreen_texture.handle

IsSubmit(c) == c.op = "submit"
IsCreateEncoder(c) == c.op = "create_command_encoder"
Submissions == SelectSeq(trace, IsSubmit)
EncodersCreated == SelectSeq(trace, IsCreateEncoder)

\* C13: a render creates one command encoder per layer and submits it
\* once, in the order of the layers; an encoder is created only after the
\* one before it was submitted, and everything recorded between an
\* encoder's creation and its submission belongs to its layer.
C13_EncoderPerLayer ==
    call.op = "draw_scene" =>
        /\ \A j \in 1..Len(trace) :
             CASE trace[j].op = "create_command_encoder" ->
                    IF j = 1 THEN trace[j].layer = 1
                    ELSE /\ trace[j - 1].op = "submit"
                         /\ trace[j].layer = trace[j - 1].layer + 1
               [] trace[j].op = "present" ->
                    j > 1 => trace[j - 1].op = "submit"
               [] trace[j].op \in {"clear_texture", "copy_texture_to_texture"} ->
                    /\ j > 1
                    /\ trace[j - 1].op \in {"create_command_encoder", "draw"}
               [] OTHER ->
                    /\ j > 1
                    /\ trace[j - 1].op \notin {"submit", "present"}
                    /\ LET p == IF "layer" \in DOMAIN trace[j - 1] THEN j - 1 ELSE j - 2
                       IN  /\ p >= 1
                           /\ trace[p].op \notin {"submit", "present"}
                           /\ trace[j].layer = trace[p].layer
        /\ \A k \in 1..Len(Submissions) : Submissions[k].layer = k
        /\ \A k \in 1..Len(EncodersCreated) : EncodersCreated[k].layer = k
        /\ Rendering =>
             /\ Len(Submissions) = li - 1
             /\ Len(EncodersCreated) = li - 1
        /\ pc = "returned" =>
             /\ Len(Submissions) = Len(scene.layers)
             /\ Len(EncodersCreated) = Len(scene.layers)

\* Three layers rendered with two drawables: three encoders, three
\* submissions.
C13_Witness ==
    /\ pc = "returned" /\ call.op = "draw_scene" /\ scene = SceneThreeLayers
    /\ Len(drawables) = 2
    /\ Len(Submissions) = 3
    /\ Len(EncodersCreated) = 3

IsPresent(c) == c.op = "present"
Presents == SelectSeq(trace, IsPresent)

\* C14: a render that does not abort acquires exactly one frame and
\* presents it exactly once, after the encoder of the last layer was
\* submitted and never before or between the submissions of the layers.
C14_PresentOnceAtEnd ==
    call.op = "draw_scene" =>
        /\ acq.frames <= 1
        /\ Len(Presents) <= 1
        /\ Rendering => (acq.frames = 1 /\ frame # None)
        /\ pc # "returned" => (Presents = <<>> /\ gpu.presented = None)
        /\ pc = "returned" =>
             /\ Len(Presents) = 1
             /\ trace[Len(trace)].op = "present"
             /\ Len(Submissions) = Len(scene.layers)
             /\ Len(scene.layers) > 0 =>
                  /\ trace[Len(trace) - 1].op = "submit"
                  /\ trace[Len(trace) - 1].layer = Len(scene.layers)
             /\ gpu.presented = Some(gpu.frame)
             /\ call.ret = Some(TRUE)

\* Two layers rendered and presented after the second submission.
C14_Witness ==
    /\ pc = "returned" /\ call.op = "draw_scene" /\ scene = SceneTwoLayers
    /\ drawables # <<>>
    /\ Len(Submissions) = 2
    /\ trace[Len(trace)].op = "present"
    /\ acq.frames = 1

IsBeginPass(c) == c.op = "begin_render_pass"
Passes == SelectSeq(trace, IsBeginPass)

\* C15: of the render passes of a frame exactly the first (first layer,
\* first drawable) loads with Clear(opaque white), every later one with
\* Load; every pass stores, targets the multisampled texture and resolves
\* into the view of the frame.
C15_ClearOnlyFirstPass ==
    (call.op = "draw_scene" /\ pc \in {"layers", "returned", "aborted"}
       /\ frame # None) =>
        /\ \A k \in 1..Len(Passes) :
             /\ Passes[k].load = (IF k = 1 THEN "Clear(WHITE)" ELSE "Load")
             /\ Passes[k].store = "Store"
             /\ Passes[k].view.label = "Output Texture"
             /\ Passes[k].view.handle =
                  surface_resources[1].multisampled_texture.handle
             /\ Passes[k].resolve_target.label = "Surface Texture"
             /\ Passes[k].resolve_target = frame[1].frame_view
        /\ Passes # <<>> => (Passes[1].layer = 1 /\ Passes[1].drawable = 1)
        /\ (Rendering /\ li > 1 /\ drawables # <<>>) => Passes # <<>>
        /\ \A k \in 1..Len(executed) :
             executed[k].load = (IF k = 1 THEN "Clear(WHITE)" ELSE "Load")

\* Two layers and two drawables: four passes, the first of which clears.
C15_Witness ==
    /\ pc = "returned" /\ call.op = "draw_scene" /\ scene = SceneTwoLayers
    /\ Len(drawables) = 2
    /\ Len(Passes) = 4
    /\ Passes[1].load = "Clear(WHITE)"
    /\ Passes[4].load = "Load"

\* The frame's width and height.
FrameW == frame[1].texture.width
FrameH == frame[1].texture.height

\* Every pass in the trace is followed by set_scissor_rect with the
\* rectangle Rect(clip) when its layer has a clip, and by no
\* set_scissor_rect when it has none.
ScissorsAre(Rect(_)) ==
    \A j \in 1..Len(trace) :
        trace[j].op = "begin_render_pass" =>
            LET l == scene.layers[trace[j].layer]
            IN  /\ j < Len(trace)
                /\ IF l.clip # None
                   THEN /\ trace[j + 1].op = "set_scissor_rect"
                        /\ trace[j + 1].layer = trace[j].layer
                        /\ trace[j + 1].rect = Rect(l.clip[1])
                   ELSE trace[j + 1].op # "set_scissor_rect"

\* The rectangle of C16 as stated.
StatedScissor(clip) ==
    <<IF clip[1] > 0 THEN clip[1] ELSE 0,
      IF clip[2] > 0 THEN clip[2] ELSE 0,
      IF clip[3] < FrameW THEN clip[3] ELSE FrameW,
      IF clip[4] < FrameH THEN clip[4] ELSE FrameH>>

\* The rectangle of C16 amended: a negative extent becomes 0.
SaturatedScissor(clip) ==
    LET w == IF clip[3] > 0 THEN clip[3] ELSE 0
        h == IF clip[4] > 0 THEN clip[4] ELSE 0
    IN  <<IF clip[1] > 0 THEN clip[1] ELSE 0,
          IF clip[2] > 0 THEN clip[2] ELSE 0,
          IF w < FrameW THEN w ELSE FrameW,
          IF h < FrameH THEN h ELSE FrameH>>

\* C16 as stated: every pass of a layer with clip (x,y,w,h) on a frame WxH
\* sets the scissor rectangle to origin (max(x,0), max(y,0)) and extent
\* (min(w,W), min(h,H)); no scissor rectangle is set for a layer without
\* clip.
C16_ScissorAsStated ==
    Rendering => ScissorsAre(StatedScissor)

\* C16 amended: every pass of a layer with clip (x,y,w,h) on a frame WxH
\* sets the scissor rectangle to origin (max(x,0), max(y,0)) and extent
\* (min(max(w,0),W), min(max(h,0),H)), which for a clip inside the frame
\* is the clip; no scissor rectangle is set for a layer without clip.
C16_ScissorClamped ==
    Rendering =>
        /\ ScissorsAre(SaturatedScissor)
        /\ \A k \in 1..Len(executed) :
             LET l == scene.layers[executed[k].layer]
             IN  executed[k].scissor =
                   (IF l.clip = None THEN None ELSE Some(SaturatedScissor(l.clip[1])))
        /\ (scene = SceneClipNoBackground /\ FrameW = 800 /\ FrameH = 600) =>
             \A k \in 1..Len(executed) : executed[k].scissor = Some(<<100, 100, 200, 150>>)

\* Three layers on an 800x600 frame: no clip, a clip of negative width,
\* and a clip that leaves the frame at the top and the bottom.
C16_Witness ==
    /\ pc = "returned" /\ call.op = "draw_scene" /\ scene = SceneThreeLayers
    /\ FrameW = 800 /\ FrameH = 600
    /\ Len(executed) = 3
    /\ executed[1].scissor = None
    /\ executed[2].scissor = Some(<<50, 50, 0, 40>>)
    /\ executed[3].scissor = Some(<<700, 0, 200, 600>>)

\* C17: Renderer::handle_event invokes surface_updated once on every
\* registered drawable, before it returns, when the manager reports a
\* transition (Init, Resumed, or Resized handled), and on no drawable
\* otherwise; when it has returned from a transition every registered
\* drawable has a pipeline built for the stored format.
C17_SurfaceUpdatedOnTransition ==
    (call.op = "handle_event" /\ pc \in {"returned", "aborted"}) =>
        LET n == Len(call.before.drawables)
        IN  /\ Len(drawables) = n
            /\ call.ret = Some(TRUE) <=>
                 (pc = "returned" /\ call.arg[1].kind \in {"Init", "Resumed", "Resized"})
            /\ IF call.ret = Some(TRUE)
               THEN /\ Len(call.updated) = n
                    /\ \A i \in 1..n :
                         /\ call.updated[i] = i
                         /\ drawables[i].render_pipeline # None
                         /\ drawables[i].render_pipeline[1].format = config[1].format
                         /\ drawables[i].kind = call.before.drawables[i].kind
                         /\ drawables[i].buffer = call.before.drawables[i].buffer
               ELSE /\ call.updated = <<>>
                    /\ drawables = call.before.drawables

\* Two drawables, the second registered after the surface was created and
\* so without a pipeline, and a Resized event: both are updated.
C17_Witness ==
    /\ pc = "returned" /\ call.op = "handle_event"
    /\ call.arg[1].kind = "Resized"
    /\ Len(drawables) = 2
    /\ call.before.drawables[1].render_pipeline # None
    /\ call.before.drawables[2].render_pipeline = None
    /\ call.updated = <<1, 2>>
    /\ drawables[2].render_pipeline # None

\* C18: for an event other than NewEvents(Init), Resumed and Resized the
\* manager's handle_event returns false and leaves the surface resources
\* and the stored configuration as they were, in the Uninitialized and in
\* the Ready state.
C18_OtherEventsIgnored ==
    (call.op = "handle_event"
       /\ call.arg[1].kind \notin {"Init", "Resumed", "Resized"}) =>
        /\ pc = "returned"
        /\ call.ret = Some(FALSE)
        /\ surface_resources = call.before.sr
        /\ config = call.before.cfg
        /\ call.created = 0
        /\ panic = ""

\* A redraw request handled in the Ready state.
C18_Witness ==
    /\ pc = "returned" /\ call.op = "handle_event"
    /\ call.arg[1].kind = "RedrawRequested"
    /\ call.before.sr # None /\ call.before.cfg # None
    /\ surface_resources # None
    /\ call.ret = Some(FALSE)

\* A QuadState of src/quad.rs holding the list qs, its buffer still holding
\* three records of an earlier upload.
LegacyState(qs) == [quads |-> qs, buffer |-> <<StaleRecord, StaleRecord, StaleRecord>>]

\* C19: each quad draw uploads its instance records from the start of the
\* buffer and issues one draw of 6 vertices whose instance count is the
\* number of records uploaded, so the draw reads exactly the records of
\* this draw; with an empty instance list the draw is still issued, with
\* instance count 0.  The QuadState of src/quad.rs does the same with its
\* own list, which clear empties.
C19_InstanceCountIsUploaded ==
    Rendering =>
        /\ \A j \in 1..Len(trace) :
             (trace[j].op = "draw_invoked" /\ trace[j].kind = "quad") =>
                 /\ j + 2 <= Len(trace)
                 /\ trace[j + 1].op = "write_buffer"
                 /\ trace[j + 1].records = Len(trace[j].quads)
                 /\ trace[j + 2].op = "draw"
                 /\ trace[j + 2].layer = trace[j].layer
                 /\ trace[j + 2].drawable = trace[j].drawable
                 /\ trace[j + 2].vertices = 6
                 /\ trace[j + 2].instances = trace[j + 1].records
        /\ Len(executed) = Len(Invocations)
        /\ \A k \in 1..Len(executed) :
             executed[k].kind = "quad" =>
                 /\ Len(executed[k].instances) = Len(Invocations[k].quads)
                 /\ executed[k].instances = Invocations[k].quads
        /\ \A k \in 1..Len(QuadInvocations) :
             LET qs == QuadInvocations[k].quads
                 d == Legacy_QuadState_draw(LegacyState(qs))
                 c == Legacy_QuadState_draw(Legacy_QuadState_clear(LegacyState(qs)))
             IN  /\ d.vertices = 6
                 /\ d.instances = Len(qs)
                 /\ SubSeq(d.buffer, 1, d.instances) = qs
                 /\ c.vertices = 6
                 /\ c.instances = 0
                 /\ c.buffer = LegacyState(qs).buffer

\* Three layers drawn by the quad drawable: one instance, none (a layer
\* without backdrop and quads), and two.
C19_Witness ==
    /\ pc = "returned" /\ call.op = "draw_scene" /\ scene = SceneThreeLayers
    /\ Len(QuadInvocations) = 3
    /\ QuadInvocations[2].quads = <<>>
    /\ \E j \in 1..Len(trace) :
         /\ trace[j].op = "draw" /\ trace[j].layer = 2
         /\ drawables[trace[j].drawable].kind = "quad"
         /\ trace[j].instances = 0
    /\ \E j \in 1..Len(trace) :
         /\ trace[j].op = "draw" /\ trace[j].layer = 3
         /\ drawables[trace[j].drawable].kind = "quad"
         /\ trace[j].instances = 2

\* C20: a Scene built by Scene::new() and changed by any sequence of the
\* Scene builder and mutator operations has at least one layer, and no
\* call of layer() or layer_mut(), direct or through a builder, panics.
C20_SceneNeverEmpty ==
    /\ Len(built.scene.layers) >= 1
    /\ ~built.panicked

\* A second layer was added, it was given a quad, and layer() was called.
C20_Witness ==
    /\ built.ops = 3
    /\ built.op = "layer"
    /\ Len(built.scene.layers) = 2
    /\ built.scene.layers[2].quads = <<QuadB>>
    /\ ~built.panicked

\* C21 as stated: a Layer deserialized from a document that omits every
\* optional field has the field values of Layer::default(): font "Courier
\* New", font size 16, background color opaque white, blur 0, no clip, and
\* empty content lists.
C21_DeserializedIsDefault ==
    (built.op = "deserialize" /\ DOMAIN built.doc[1] = {}) =>
        LET l == built.scene.layers[1]
        IN  /\ l.font_name = "Courier New"
            /\ l.font_size = 16
            /\ l.background_blur_radius = 0
            /\ l.clip = None
            /\ l.quads = <<>> /\ l.texts = <<>> /\ l.paths = <<>> /\ l.sprites = <<>>
            /\ l.background_color = Some(<<1, 1, 1, 1>>)
            /\ l = Layer_default
            /\ l = Layer_deserialize_empty
\* C22 as stated: whenever the manager is Ready and draw_scene invokes
\* draw on a registered drawable, surface_updated has been invoked on that
\* drawable since the last Init, Resumed or Resized event: its render
\* pipeline exists and the draw does not fail, also for a drawable
\* registered after the Init event.
C22_PipelineExistsAtDraw ==
    (call.op = "draw_scene" /\ surface_resources # None /\ config # None) =>
        /\ \A j \in 1..Len(trace) :
             trace[j].op = "draw_invoked" =>
                 /\ drawables[trace[j].drawable].render_pipeline # None
                 /\ drawables[trace[j].drawable].render_pipeline[1].format
                      = config[1].format
        /\ panic # "draw"

\* C23: a frame acquisition ends, with a frame or with an abort, after at
\* most three attempts and at most one recreation of the resources,
\* whatever the surface answers: it is still running only after no
\* answer, one failure, or a recovered failure followed by a Timeout.
C23_AcquisitionBounded ==
    call.op = "draw_scene" =>
        /\ Len(Answers) <= 3
        /\ acq.created <= 1
        /\ acq.frames <= 1
        /\ pc = "acquire" =>
             /\ Len(Answers) <= 2
             /\ \A i \in 1..Len(Answers) : Answers[i] # "Ok"
             /\ Len(Answers) = 2 =>
                  /\ Answers[1] \in {"Outdated", "Lost", "OutOfMemory"}
                  /\ Answers[2] = "Timeout"
             /\ acq.created = 1 => Answers[1] \in {"Outdated", "Lost", "OutOfMemory"}
        /\ \A i \in 1..Len(Answers) :
             (i < Len(Answers)) => Answers[i] # "Ok"
        /\ (Answers # <<>> /\ Answers[Len(Answers)] = "Ok") => pc = "acquired"

\* The longest acquisition: Lost, a recreation, Timeout, and a third
\* failure that aborts.
C23_Witness ==
    /\ Answers = <<"Lost", "Timeout", "OutOfMemory">>
    /\ acq.created = 1
    /\ pc = "aborted"
    /\ panic = "surface_texture"

C25_OnlyLastLayerChanges ==
    (built.before # None /\ ~built.panicked) =>
        LET old == built.before[1].layers
            new == built.scene.layers
        IN  CASE built.op \in {"add_layer", "with_layer"} ->
                   /\ Len(new) = Len(old) + 1
                   /\ \A i \in 1..Len(old) : new[i] = old[i]
                   /\ new[Len(new)] \in LayerInputs
              [] built.op \in {"layer", "layer_mut"} -> new = old
              [] OTHER ->
                   /\ Len(new) = Len(old)
                   /\ \A i \in 1..(Len(old) - 1) : new[i] = old[i]

\* A quad in the first layer, a second layer added, and a clip set: the
\* first layer keeps its quad and has no clip.
C25_Witness ==
    /\ built.op = "with_clip" /\ built.ops = 3
    /\ Len(built.scene.layers) = 2
    /\ built.scene.layers[1].quads = <<QuadA>>
    /\ built.scene.layers[1].clip = None
    /\ built.scene.layers[2].clip = Some(ClipA)
    /\ built.before[1].layers[2].clip = None

\* C26: every scissor rectangle set by render lies inside the frame:
\* origin_x + extent_w <= W and origin_y + extent_h <= H.
C26_ScissorInsideFrame ==
    (call.op = "draw_scene" /\ frame # None) =>
        \A j \in 1..Len(trace) :
            trace[j].op = "set_scissor_rect" =>
                /\ trace[j].rect[1] + trace[j].rect[3] <= FrameW
                /\ trace[j].rect[2] + trace[j].rect[4] <= FrameH

IsWrite(c) == c.op = "write_buffer"

\* C27: within one render call, between two writes of the same drawable's
\* instance buffer there is a queue submission, every write is of the
\* drawable's instance list for its layer, and every executed draw of
\* layer k read exactly the instances of layer k for its kind.
C27_OneWritePerSubmission ==
    (call.op = "draw_scene" /\ pc \in {"layers", "returned", "aborted"}
       /\ frame # None) =>
        /\ \A i, j \in 1..Len(trace) :
             (i < j /\ IsWrite(trace[i]) /\ IsWrite(trace[j])
                /\ trace[i].drawable = trace[j].drawable) =>
                 /\ trace[i].layer < trace[j].layer
                 /\ \E k \in (i + 1)..(j - 1) : IsSubmit(trace[k])
        /\ \A i \in 1..Len(trace) :
             IsWrite(trace[i]) =>
                 trace[i].records =
                   Len(Instances(drawables[trace[i].drawable].kind,
                                 scene.layers[trace[i].layer],
                                 ShaderConstants(frame[1].texture)))
        /\ \A k \in 1..Len(executed) :
             executed[k].instances =
               Instances(executed[k].kind, scene.layers[executed[k].layer],
                         ShaderConstants(frame[1].texture))

\* A frame is finished in which one drawable drew two layers with
\* different, non-empty instance lists of the same length: the records of
\* the earlier layer were overwritten after the earlier layer's submission.
C27_Witness ==
    /\ pc = "returned" /\ call.op = "draw_scene"
    /\ \E a, b \in 1..Len(executed) :
         /\ a < b
         /\ executed[a].drawable = executed[b].drawable
         /\ executed[a].layer < executed[b].layer
         /\ Len(executed[b].instances) > 0
         /\ Len(executed[a].instances) = Len(executed[b].instances)
         /\ executed[a].instances # executed[b].instances
         /\ drawables[executed[a].drawable].buffer = executed[b].instances

\* C28: a step that does not abort leaves the manager with surface
\* resources and configuration both absent or both present, ready() telling
\* which; and a step that does not abort and starts with both present ends
\* with both present.
C28_BothOrNeither ==
    [][ (pc' # "aborted") =>
          /\ IsSome(surface_resources') <=> IsSome(config')
          /\ ready' <=> IsSome(surface_resources')
          /\ ready => ready' ]_vars

\* A Resized event was handled by a Ready manager, which is Ready with
\* other resources afterwards; the manager had been Uninitialized before.
C28_Witness ==
    /\ pc = "returned" /\ call.op = "handle_event"
    /\ call.arg[1].kind = "Resized"
    /\ IsSome(call.before.sr) /\ IsSome(call.before.cfg)
    /\ ready
    /\ surface_resources # call.before.sr
    /\ config # call.before.cfg

\* The frame at hand was acquired after a recreation of the resources.
Recovered == call.op = "draw_scene" /\ frame # None /\ acq.created > 0

\* C29: in a frame acquired after a recreation of the resources, every
\* pass targets the new multisampled texture, every backdrop clear and copy
\* writes the new offscreen texture, every draw binds the new universal
\* bind group, none of them the ones the call was entered with; and the
\* universal bind group of the manager references its offscreen texture.
C29_FrameUsesNewResources ==
    /\ IsSome(surface_resources) =>
          surface_resources[1].universal_bind_group.texture =
            TexRef(surface_resources[1].offscreen_texture)
    /\ (Recovered /\ pc \in {"layers", "returned", "aborted"}) =>
          LET sr == surface_resources[1]
              old == acq.entry[1]
          IN  /\ sr.multisampled_texture # old.multisampled_texture
              /\ sr.offscreen_texture # old.offscreen_texture
              /\ sr.universal_bind_group # old.universal_bind_group
              /\ frame[1].multisampled_view = TexRef(sr.multisampled_texture)
              /\ \A j \in 1..Len(trace) :
                   CASE trace[j].op = "begin_render_pass" ->
                          /\ trace[j].view = TexRef(sr.multisampled_texture)
                          /\ trace[j].view # TexRef(old.multisampled_texture)
                     [] trace[j].op = "clear_texture" ->
                          /\ trace[j].texture = TexRef(sr.offscreen_texture)
                          /\ trace[j].texture # TexRef(old.offscreen_texture)
                     [] trace[j].op = "copy_texture_to_texture" ->
                          /\ trace[j].dst = TexRef(sr.offscreen_texture)
                          /\ trace[j].dst # TexRef(old.offscreen_texture)
                     [] trace[j].op = "draw" ->
                          /\ trace[j].universal_bind_group = sr.universal_bind_group
                          /\ trace[j].universal_bind_group # old.universal_bind_group
                     [] OTHER -> TRUE
              /\ \A k \in 1..Len(executed) : executed[k].backdrop # Stale

\* A frame acquired after a recreation is finished: two layers were drawn,
\* the first after a clear and the second after a copy of the frame.
C29_Witness ==
    /\ Recovered /\ pc = "returned"
    /\ Len(executed) >= 2
    /\ \E i, j \in 1..Len(trace) :
         /\ trace[i].op = "clear_texture"
         /\ trace[j].op = "copy_texture_to_texture"
    /\ \E j \in 1..Len(trace) : trace[j].op = "draw"

==========================================================================
